---- MODULE Spec2Model ----
(***************************************************************************)
(* State-machine model of E2E (e2e_asr_disentangled_transformer.py):       *)
(*   - E2E.__init__ / E2E.forward / E2E.initialize_model: the staged       *)
(*     collection of embeddings, the gradient freeze, the total loss and   *)
(*     its report, the mixture fit and the re-arm;                         *)
(*   - E2E.recognize: the pure-CTC path, the beam search and the retry.    *)
(*   - E2E.calculate_all_attentions / E2E.calculate_all_ctc_probs: the     *)
(*     forward pass they make in evaluation mode.                          *)
(* Scores are integers; ratios (mtlalpha, ctc_weight, minlenratio,         *)
(* maxlenratio) are kept in tenths, so 0.1 is 1 and 1.0 is 10.             *)
(***************************************************************************)
EXTENDS Integers, Sequences, FiniteSets, TLC

(***************************************************************************)
(* Program constants.                                                      *)
(***************************************************************************)
max_initialization_tokens == 50000
ReinitUpdates == 5000
InitTokensPrefit == 50001
\* CTC_LOSS_THRESHOLD of espnet.nets.pytorch_backend.e2e_asr
CTC_LOSS_THRESHOLD == 10000

(***************************************************************************)
(* Bounds of the model.                                                    *)
(***************************************************************************)
\* forward passes explored after construction
MaxUpdates == 5004
\* attention heads H (args.aheads)
aheads == 2

\* mtlalpha in tenths: 0 (attention only), 5 (hybrid), 10 (CTC only)
MtlAlphas == {0, 5, 10}
\* batch sizes B, encoder-output lengths and decoder-input lengths L of a batch
BatchSizes == {100, 200}
EncLens == {250, 500}
DecLens == {125, 250}
\* batches of one short utterance the feed can start with: none, or as many
\* as bring the token counter just below the budget one or two passes before
\* the re-arm is due
Leads == {0, ReinitUpdates - 2, ReinitUpdates - 1}
\* passes explored when the component losses vary
LossPasses == 2
\* calls of forward explored when the plotting calls interleave with training
EvalPasses == 3
\* values of the attention and CTC losses (NaN as well) and of the three
\* disentanglement losses, and the weights of the latter
MainLossValues == {2, 10000}
AuxLossValues == {0, 1}
LossWeights == {0, 2}

\* ---- decoding
\* encoder-output frames T of the utterances decoded with a wider beam
BeamFrames == {1, 2}
\* frames of the utterances decoded with beam_size 1
MaxGreedyFrames == 3
\* frames of the utterances decoded by a CTC-only model
MaxCtcFrames == 4
\* largest nbest requested
MaxNbest == 2
\* largest insertion penalty
MaxPenalty == 1
\* beam sizes requested
BeamSizes == {1, 2}
\* output dimensions: 3 = {blank, a, sos/eos}, 4 = {blank, a, b, sos/eos};
\* the beam search is explored on the first only
Odims == {3, 4}
SearchOdims == {3}
\* per-token log-probabilities of the decoder, the CTC prefix scorer and the LM
LocalScores == {-1, 0}
\* decode ratios, in tenths
CtcWeights == {0, 5, 10}
MaxLenRatios == {0, 5, 10}
MinLenRatios == {0, 10}

VARIABLES
    \* ---- E2E fields
    odim,                   \* self.odim
    mtlalpha,               \* self.mtlalpha, in tenths
    gmm_init,               \* args.gmm_init
    kl_weight,              \* self.kl_weight
    div_weight,             \* self.div_weight
    mi_weight,              \* self.mi_weight
    num_updates,            \* self.num_updates
    initialization_tokens,  \* self.initialization_tokens
    reinitialized,          \* self.reinitialized
    initialization_data,    \* self.initialization_data: stream -> [tensor, rows]
    requires_grad,          \* requires_grad of the model's parameters
    debug,                  \* debug of every DisentangledMaskAttention module
    loss,                   \* self.loss, in tenths
    training,               \* self.training (torch.nn.Module)
    \* ---- the trainer
    feed,                   \* the batches the trainer feeds to forward
    \* ---- history of the forward passes (not program state)
    fit_count,              \* calls of initialize_model so far
    fits_since_rearm,       \* calls of initialize_model since construction / the re-arm
    rearm_count,            \* executions of the re-arm block so far
    enc_token_sum,          \* sum of B * encoder-output length over the passes that
                            \* ran the collection block since construction / the re-arm
    semantic_fits,          \* fits that wrote the semantic mixtures
    head_fits,              \* fits that wrote the head-selection mixtures
    losses,                 \* the component losses of the last pass
    reported,               \* the calls of self.reporter.report in the last pass
    fwd_outcome,            \* how the last forward pass ended
    eval_passes,            \* forward passes made in evaluation mode so far
    \* ---- one call of recognize
    recog_args,             \* the caller's Namespace object
    rnnlm,                  \* whether a language model is given
    frame_args,             \* recog_args as bound in the running invocation
    depth,                  \* recursion depth of the running invocation
    T,                      \* h.size(0): frames of the encoder output
    pc,                     \* position in recognize
    i,                      \* the decoding step
    k,                      \* the hypothesis of hyps the step expands next
    hyps,                   \* live hypotheses: sequence of [score, yseq]
    hyps_best_kept,
    ended_hyps,
    maxlen,
    minlen,
    lpz,                    \* the CTC argmax path (pure-CTC path), else << >>
    nbest_hyps,             \* the list recognize returned
    \* ---- history of the running search step (kept by the traced search only)
    step_cands,             \* the candidates generated so far in the step, in order
    end_detected,           \* what end_detect answered at the end of the last step
                            \* of the search in progress
    caller_args,            \* the caller's recog_args as they were before the call
    local                   \* the scorers' outputs for the last expansion

fwd_vars == <<odim, mtlalpha, gmm_init, kl_weight, div_weight, mi_weight, num_updates,
              initialization_tokens, reinitialized, initialization_data, requires_grad,
              debug, loss, feed, fit_count, fits_since_rearm, rearm_count,
              enc_token_sum, semantic_fits, head_fits, losses, reported, fwd_outcome,
              eval_passes>>

rec_vars == <<recog_args, rnnlm, frame_args, depth, T, pc, i, k, hyps, hyps_best_kept,
              ended_hyps, maxlen, minlen, lpz, nbest_hyps, step_cands, local,
              end_detected, caller_args>>

vars == <<fwd_vars, training, rec_vars>>

(***************************************************************************)
(* Floating-point values: a number (in tenths), NaN, or Python's None.     *)
(***************************************************************************)
Num(v) == [kind |-> "num", v |-> v]
NaN == [kind |-> "nan", v |-> 0]
None == [kind |-> "none", v |-> 0]

\* a + b
FAdd(a, b) == IF a.kind = "nan" \/ b.kind = "nan" THEN NaN ELSE Num(a.v + b.v)

\* w * a for a number w
FMul(w, a) == IF a.kind = "nan" THEN NaN ELSE Num(w * a.v)

(***************************************************************************)
(* E2E.__init__                                                            *)
(***************************************************************************)
Streams == {"enc_hidden_states", "dec_hidden_states", "dec_enc_hidden_states",
            "enc_query", "dec_query", "dec_enc_query"}

\* the dict of six empty lists
EmptyData == [s \in Streams |-> [tensor |-> FALSE, rows |-> 0]]

\* self.decoder is constructed only when mtlalpha < 1, else it is None
HasDecoder(alpha) == alpha < 10

\* self.ctc is constructed only when mtlalpha > 0, else it is None
HasCtc(alpha) == alpha > 0

\* self.initialization_tokens = 0 if args.gmm_init else 50001
InitTokens(gmm) == IF gmm THEN 0 ELSE InitTokensPrefit

InitReinitialized_AlwaysFalse(gmm) == FALSE

\* self.reinitialized = False if args.gmm_init else True
InitReinitialized(gmm) == IF gmm THEN FALSE ELSE TRUE

Construct ==
    /\ mtlalpha \in MtlAlphas
    /\ gmm_init \in BOOLEAN
    /\ num_updates = 0
    /\ initialization_tokens = InitTokens(gmm_init)
    /\ reinitialized = InitReinitialized(gmm_init)
    /\ initialization_data = EmptyData
    \* a new parameter requires grad; debug and self.loss are first set by forward
    /\ requires_grad = TRUE
    /\ debug = "unset"
    \* torch.nn.Module.__init__: a new module is in training mode
    /\ training = TRUE
    /\ loss = None
    /\ fit_count = 0
    /\ fits_since_rearm = 0
    /\ rearm_count = 0
    /\ enc_token_sum = 0
    /\ semantic_fits = 0
    /\ head_fits = 0
    /\ losses = [loss_ctc |-> None, loss_att |-> None, loss_kl |-> None,
                 loss_div |-> None, loss_mi |-> None]
    /\ reported = << >>
    /\ fwd_outcome = "none"
    /\ eval_passes = 0

(***************************************************************************)
(* E2E.forward                                                             *)
(***************************************************************************)
\* `if self.train:` tests the bound method torch.nn.Module.train, which is
\* always truthy: the counter advances on every pass, whatever self.training
\* (mode) is.
NumUpdatesNext(n, mode) == n + 1

\* if self.num_updates >= 5000 and not self.reinitialized
RearmDue(n, reinit) == n >= ReinitUpdates /\ ~reinit

RearmBlock_KeepFlag(n, tokens, reinit, data) ==
    IF RearmDue(n, reinit)
    THEN [tokens |-> 0, reinit |-> reinit, data |-> EmptyData, rearmed |-> TRUE]
    ELSE [tokens |-> tokens, reinit |-> reinit, data |-> data, rearmed |-> FALSE]

\* the re-arm block: counter to 0, flag set, six fresh empty lists
RearmBlock(n, tokens, reinit, data) ==
    IF RearmDue(n, reinit)
    THEN [tokens |-> 0, reinit |-> TRUE, data |-> EmptyData, rearmed |-> TRUE]
    ELSE [tokens |-> tokens, reinit |-> reinit, data |-> data, rearmed |-> FALSE]

\* if self.initialization_tokens < self.max_initialization_tokens
Collecting(tokens) == tokens < max_initialization_tokens

FreezeBlock_NeverFrozen(tokens) == [requires_grad |-> TRUE, debug |-> "off"]

\* while collecting: m.debug = True, self.requires_grad_(False); otherwise
\* self.requires_grad_(True), m.debug = False (and the modules' update counters
\* stay without grad)
FreezeBlock(tokens) ==
    IF Collecting(tokens)
    THEN [requires_grad |-> FALSE, debug |-> "on"]
    ELSE [requires_grad |-> TRUE, debug |-> "off"]

\* loss_att is None without a decoder, loss_ctc is None when mtlalpha == 0
ComponentLosses(alpha, l) ==
    [l EXCEPT !.loss_att = IF HasDecoder(alpha) THEN @ ELSE None,
              !.loss_ctc = IF alpha = 0 THEN None ELSE @]

\* self.kl_weight*loss_kl + self.div_weight*loss_div + self.mi_weight*loss_mi
DisentangledLoss(wkl, wdiv, wmi, l) ==
    FAdd(FAdd(FMul(10 * wkl, l.loss_kl), FMul(10 * wdiv, l.loss_div)),
         FMul(10 * wmi, l.loss_mi))

TotalLoss_Unweighted(alpha, wkl, wdiv, wmi, l) ==
    IF alpha = 0 THEN FAdd(FMul(10, l.loss_att), DisentangledLoss(wkl, wdiv, wmi, l))
    ELSE IF alpha = 10 THEN FAdd(FMul(10, l.loss_ctc), DisentangledLoss(wkl, wdiv, wmi, l))
    ELSE FAdd(FAdd(FMul(10, l.loss_ctc), FMul(10, l.loss_att)),
              DisentangledLoss(wkl, wdiv, wmi, l))

\* self.loss, in tenths (alpha is in tenths, the component losses in units)
TotalLoss(alpha, wkl, wdiv, wmi, l) ==
    IF alpha = 0 THEN FAdd(FMul(10, l.loss_att), DisentangledLoss(wkl, wdiv, wmi, l))
    ELSE IF alpha = 10 THEN FAdd(FMul(10, l.loss_ctc), DisentangledLoss(wkl, wdiv, wmi, l))
    ELSE FAdd(FAdd(FMul(alpha, l.loss_ctc), FMul(10 - alpha, l.loss_att)),
              DisentangledLoss(wkl, wdiv, wmi, l))

\* loss_att_data: None when alpha == 1, else float(loss_att)
LossAttData(alpha, l) == IF alpha = 10 THEN None ELSE l.loss_att

\* loss_ctc_data: None when alpha == 0, else float(loss_ctc)
LossCtcData(alpha, l) == IF alpha = 0 THEN None ELSE l.loss_ctc

ReportDue_Always(loss_data) == TRUE

\* if loss_data < CTC_LOSS_THRESHOLD and not math.isnan(loss_data)
ReportDue(loss_data) ==
    loss_data.kind = "num" /\ loss_data.v < 10 * CTC_LOSS_THRESHOLD

\* the calls of self.reporter.report the pass makes
Report(alpha, l, loss_data) ==
    IF ReportDue(loss_data)
    THEN <<[loss_ctc |-> LossCtcData(alpha, l), loss_att |-> LossAttData(alpha, l),
            loss |-> loss_data]>>
    ELSE << >>

\* list.append of one stacked chunk of `n` rows to stream s
AppendRows(data, s, n) == [data EXCEPT ![s].rows = @ + n]

\* the encoder streams: hidden states reshaped to B*L rows, queries to B*L*H rows
CollectEncoder(data, B, Lenc) ==
    AppendRows(AppendRows(data, "enc_hidden_states", B * Lenc), "enc_query", B * Lenc * aheads)

\* the decoder self-attention and source-attention streams; B, H, L, D are
\* unpacked from decoder.dm_self_attn's hidden states in both loops
CollectDecoder(data, B, Ldec) ==
    LET d1 == AppendRows(AppendRows(data, "dec_hidden_states", B * Ldec),
                     "dec_query", B * Ldec * aheads)
    IN  AppendRows(AppendRows(d1, "dec_enc_hidden_states", B * Ldec),
               "dec_enc_query", B * Ldec * aheads)

\* self.initialization_tokens += B*L, with B and L as last unpacked in the
\* final loop over self.decoder.decoders (decoder self-attention sizes)
TokensAdvance(tokens, B, Lenc, Ldec) == tokens + B * Ldec

FitDue_Always(tokens) == TRUE

\* if self.initialization_tokens >= self.max_initialization_tokens
FitDue(tokens) == tokens >= max_initialization_tokens

InitializeDisentangledHead_Always(reinit) == TRUE

\* initialize_disentangled_head=self.reinitialized
InitializeDisentangledHead(reinit) == reinit

(***************************************************************************)
(* E2E.initialize_model: every stream is replaced by the concatenation of  *)
(* its chunks (a tensor); the mixtures are fit from the tensors.           *)
(***************************************************************************)
initialize_model(data) == [s \in Streams |-> [tensor |-> TRUE, rows |-> data[s].rows]]

\* the writes of gmm_pretraining: the semantic mixtures of every layer and
\* head always, the head-selection mixtures when asked to
FitMixtures(sem, head, initialize_disentangled_head) ==
    [semantic |-> sem + 1,
     head |-> IF initialize_disentangled_head THEN head + 1 ELSE head]

\* the batch shapes (B, encoder-output length, decoder-input length) the
\* trainer can feed after n passes: the feed starts with feed.lead batches of
\* one short utterance
ShortBatch == <<1, 20, 10>>

BatchShapes(n) ==
    IF n < feed.lead THEN {ShortBatch} ELSE feed.shapes

\* One call of forward on a batch of B utterances whose encoder output has
\* Lenc frames and whose decoder input has Ldec tokens, and for which the
\* criteria compute the component losses l, made with self.training = mode
\* (which forward reads for the error calculator only and never writes).
Forward(B, Lenc, Ldec, l, mode) ==
    /\ num_updates < feed.passes
    \* an exception leaves forward and ends the caller's run
    /\ fwd_outcome # "raised"
    /\ LET n  == NumUpdatesNext(num_updates, mode)
           r  == RearmBlock(n, initialization_tokens, reinitialized, initialization_data)
           fr == FreezeBlock(r.tokens)
           cl == ComponentLosses(mtlalpha, l)
           total == TotalLoss(mtlalpha, kl_weight, div_weight, mi_weight, cl)
           sum0 == IF r.rearmed THEN 0 ELSE enc_token_sum
           fsr0 == IF r.rearmed THEN 0 ELSE fits_since_rearm
       IN
       /\ num_updates' = n
       /\ eval_passes' = IF mode THEN eval_passes ELSE eval_passes + 1
       /\ reinitialized' = r.reinit
       /\ rearm_count' = IF r.rearmed THEN rearm_count + 1 ELSE rearm_count
       /\ requires_grad' = fr.requires_grad
       /\ debug' = fr.debug
       /\ losses' = cl
       /\ reported' = Report(mtlalpha, cl, total)
       \* in a collecting pass self.loss + fake_tensor_need_grad, a zero
       /\ loss' = total
       /\ IF Collecting(r.tokens)
          THEN LET d1 == CollectEncoder(r.data, B, Lenc) IN
               IF ~HasDecoder(mtlalpha)
               THEN \* self.decoder.decoders with self.decoder None: AttributeError
                    /\ initialization_data' = d1
                    /\ initialization_tokens' = r.tokens
                    /\ enc_token_sum' = sum0 + B * Lenc
                    /\ fit_count' = fit_count
                    /\ fits_since_rearm' = fsr0
                    /\ UNCHANGED <<semantic_fits, head_fits>>
                    /\ fwd_outcome' = "raised"
               ELSE LET d2 == CollectDecoder(d1, B, Ldec)
                        t  == TokensAdvance(r.tokens, B, Lenc, Ldec)
                        fit == FitDue(t)
                        mix == FitMixtures(semantic_fits, head_fits,
                                           InitializeDisentangledHead(r.reinit))
                    IN
                    /\ initialization_tokens' = t
                    /\ initialization_data' = IF fit THEN initialize_model(d2) ELSE d2
                    /\ enc_token_sum' = sum0 + B * Lenc
                    /\ fit_count' = IF fit THEN fit_count + 1 ELSE fit_count
                    /\ fits_since_rearm' = IF fit THEN fsr0 + 1 ELSE fsr0
                    /\ semantic_fits' = IF fit THEN mix.semantic ELSE semantic_fits
                    /\ head_fits' = IF fit THEN mix.head ELSE head_fits
                    /\ fwd_outcome' = "returned"
          ELSE /\ initialization_data' = r.data
               /\ initialization_tokens' = r.tokens
               /\ enc_token_sum' = sum0
               /\ fit_count' = fit_count
               /\ fits_since_rearm' = fsr0
               /\ UNCHANGED <<semantic_fits, head_fits>>
               /\ fwd_outcome' = "returned"
    /\ UNCHANGED <<odim, mtlalpha, gmm_init, kl_weight, div_weight, mi_weight, feed>>
    /\ UNCHANGED rec_vars

\* a pass of the trainer, in the mode the model is in
ForwardPass ==
    /\ \E shape \in BatchShapes(num_updates), l \in feed.losses :
          Forward(shape[1], shape[2], shape[3], l, training)
    /\ UNCHANGED training

(***************************************************************************)
(* E2E.calculate_all_attentions, E2E.calculate_all_ctc_probs               *)
(***************************************************************************)
\* self.eval(); with torch.no_grad(): self.forward(...); ...; self.train().
\* An exception raised by forward leaves the model in evaluation mode.
EvalForward ==
    /\ \E shape \in BatchShapes(num_updates), l \in feed.losses :
          Forward(shape[1], shape[2], shape[3], l, FALSE)
    /\ training' = (fwd_outcome' = "returned")

CalculateAllAttentions == EvalForward

\* the same around forward, unless `if self.mtlalpha == 0: return ret`
CalculateAllCtcProbs ==
    IF mtlalpha = 0 THEN UNCHANGED vars ELSE EvalForward

(***************************************************************************)
(* E2E.recognize: helpers                                                  *)
(***************************************************************************)
Max(a, b) == IF a >= b THEN a ELSE b
Min(a, b) == IF a <= b THEN a ELSE b

\* token ids 0 .. odim-1
Tokens(od) == 0 .. (od - 1)

\* self.blank = 0
blank == 0
\* self.sos = odim - 1
sos(od) == od - 1
\* self.eos = odim - 1
eos(od) == od - 1

\* [x[0] for x in groupby(lpz[0])]: one token per run of equal tokens
RECURSIVE groupby(_)
groupby(path) ==
    IF Len(path) <= 1 THEN path
    ELSE IF path[1] = path[2] THEN groupby(Tail(path))
         ELSE <<path[1]>> \o groupby(Tail(path))

\* filter(lambda x: x != self.blank, collapsed_indices)
RemoveBlank(seq) == SelectSeq(seq, LAMBDA x : x # blank)

CtcHypothesis_BlankFirst(od, path) ==
    <<[score |-> 0, yseq |-> <<sos(od)>> \o groupby(RemoveBlank(path))]>>

\* nbest_hyps = [{"score": 0.0, "yseq": [self.sos] + hyp}]
CtcHypothesis(od, path) ==
    <<[score |-> 0, yseq |-> <<sos(od)>> \o RemoveBlank(groupby(path))]>>

\* maxlen: h.shape[0] when maxlenratio == 0, else max(1, int(maxlenratio * T))
MaxLenOf(args, t) ==
    IF args.maxlenratio = 0 THEN t ELSE Max(1, (args.maxlenratio * t) \div 10)

\* minlen = int(recog_args.minlenratio * h.size(0))
MinLenOf(args, t) == (args.minlenratio * t) \div 10

\* the first n elements of seq (a slice [:n])
Take(seq, n) == SubSeq(seq, 1, Min(n, Len(seq)))

\* sorted(..., key=lambda x: x["score"], reverse=True): stable, so an element
\* comes before another when its score is larger, or equal and it came first
SortedByScore(seq) ==
    LET n == Len(seq)
        before(p, q) == \/ seq[p].score > seq[q].score
                        \/ seq[p].score = seq[q].score /\ p < q
        rank(p) == 1 + Cardinality({q \in 1..n : before(q, p)})
    IN [r \in 1..n |-> seq[CHOOSE p \in 1..n : rank(p) = r]]

\* torch.topk(scores, n): the indices of n largest entries, largest first;
\* the order among equal entries is not specified, so every order is possible
TopK(f, dom, n) ==
    { s \in [1..n -> dom] :
        /\ \A a, b \in 1..n : a < b => s[a] # s[b] /\ f[s[a]] >= f[s[b]]
        /\ \A d \in dom : (\A a \in 1..n : s[a] # d) => \A a \in 1..n : f[d] <= f[s[a]] }

\* lpz is not None: a CTC module exists and the request weights it
UsesCtc(alpha, args) == alpha > 0 /\ args.ctc_weight > 0 /\ args.ctc_weight # 10

\* the pure-CTC branch is taken
PureCtc(alpha, args) == alpha > 0 /\ args.ctc_weight = 10

\* ctc_beam = min(lpz.shape[-1], int(beam * CTC_SCORING_RATIO)), or the whole
\* vocabulary when ctc_weight is 1.0; CTC_SCORING_RATIO is 1.5
CtcBeam_All(od, args) == od

CtcBeam(od, args) ==
    IF args.ctc_weight # 10 THEN Min(od, (args.beam_size * 15) \div 10) ELSE od

CtcBeamSearchUnimplemented_Never(args) == FALSE

\* if recog_args.beam_size > 1: raise NotImplementedError
CtcBeamSearchUnimplemented(args) == args.beam_size > 1

\* recog_args.ctc_weight = 1.0 when the model is CTC-only
ForceCtcWeight(alpha, args) ==
    IF alpha = 10 THEN [args EXCEPT !.ctc_weight = 10] ELSE args

\* the candidates one hypothesis yields in a step, given the per-token scores
\* att of the decoder, ctc of the CTC prefix scorer (relative to
\* ctc_score_prev; read for the pre-pruned candidates only) and lm of the
\* language model:
\* the possible sequences of beam [tok, score] pairs, best first (one per
\* outcome of topk on equal scores).  Scores are in tenths.
LocalCandidates(od, alpha, args, lm_on, att, ctc, lm) ==
    LET beam == args.beam_size
        lmterm(t) == IF lm_on THEN args.lm_weight * lm[t] ELSE 0
    IN
    IF UsesCtc(alpha, args)
    THEN LET cb == CtcBeam(od, args) IN
         UNION { LET sc == [c \in 1..cb |->
                              (10 - args.ctc_weight) * att[ids[c]]
                              + args.ctc_weight * ctc[ids[c]] + lmterm(ids[c])]
                 IN { [j \in 1..beam |-> [tok |-> ids[joint[j]], score |-> sc[joint[j]]]] :
                        joint \in TopK(sc, 1..cb, beam) }
               : ids \in TopK(att, Tokens(od), cb) }
    ELSE LET sc == [t \in Tokens(od) |-> 10 * att[t] + lmterm(t)]
         IN { [j \in 1..beam |-> [tok |-> best[j], score |-> sc[best[j]]]] :
                best \in TopK(sc, Tokens(od), beam) }

\* every candidate sequence the three scorers can produce for one hypothesis:
\* the scorers are outside this file, so each per-token score is any value of
\* LocalScores
CandidateSets(od, alpha, args, lm_on) ==
    UNION { LocalCandidates(od, alpha, args, lm_on, s[1], s[2], s[3]) :
            s \in [Tokens(od) -> LocalScores]
                  \X (IF UsesCtc(alpha, args)
                      THEN [Tokens(od) -> LocalScores]
                      ELSE {[t \in Tokens(od) |-> 0]})
                  \X (IF lm_on THEN [Tokens(od) -> LocalScores]
                      ELSE {[t \in Tokens(od) |-> 0]}) }

InitialHyp_Blank(od) == [score |-> 0, yseq |-> <<blank>>]

\* hyp = {"score": 0.0, "yseq": [y]} with y = self.sos
InitialHyp(od) == [score |-> 0, yseq |-> <<sos(od)>>]

NewHyp_SameLength(hyp, c) ==
    [score |-> hyp.score + c.score, yseq |-> [hyp.yseq EXCEPT ![Len(hyp.yseq)] = c.tok]]

\* new_hyp for candidate c of hypothesis hyp
NewHyp(hyp, c) == [score |-> hyp.score + c.score, yseq |-> Append(hyp.yseq, c.tok)]

KeepBest_Unsorted(kept, hyp, cands, beam) ==
    Take(kept \o [j \in 1..Len(cands) |-> NewHyp(hyp, cands[j])], beam)

\* hyps_best_kept after the candidates of one hypothesis were appended, sorted
\* and cut to the beam
KeepBest(kept, hyp, cands, beam) ==
    Take(SortedByScore(kept \o [j \in 1..Len(cands) |-> NewHyp(hyp, cands[j])]), beam)

ForceEos_Never(od, hs, step, mlen) == hs

\* hyp["yseq"].append(self.eos) for every hypothesis, in the last step only
ForceEos(od, hs, step, mlen) ==
    IF step = mlen - 1
    THEN [j \in 1..Len(hs) |-> [hs[j] EXCEPT !.yseq = Append(@, eos(od))]]
    ELSE hs

Last(seq) == seq[Len(seq)]

LongEnough_Never(hyp, mlen) == FALSE

\* if len(hyp["yseq"]) > minlen
LongEnough(hyp, mlen) == Len(hyp.yseq) > mlen

\* the loop over hyps that moves ended hypotheses to ended_hyps; fin[j] is the
\* language model's final score of hypothesis j (tenths, already weighted)
RECURSIVE SplitEnded(_, _, _, _, _, _, _)
SplitEnded(od, hs, j, mlen, bonus, fin, acc) ==
    IF j > Len(hs) THEN acc
    ELSE LET hyp == hs[j] IN
         IF Last(hyp.yseq) = eos(od)
         THEN IF LongEnough(hyp, mlen)
              THEN SplitEnded(od, hs, j + 1, mlen, bonus, fin,
                       [acc EXCEPT !.ended =
                           Append(@, [hyp EXCEPT !.score = @ + bonus + fin[j]])])
              ELSE SplitEnded(od, hs, j + 1, mlen, bonus, fin, acc)
         ELSE SplitEnded(od, hs, j + 1, mlen, bonus, fin,
                  [acc EXCEPT !.remained = Append(@, hyp)])

NbestOf_All(ended, args) == SortedByScore(ended)

\* sorted(ended_hyps, ...)[: min(len(ended_hyps), recog_args.nbest)]
NbestOf(ended, args) == Take(SortedByScore(ended), Min(Len(ended), args.nbest))

RetryDue_Never(nb) == FALSE

\* if len(nbest_hyps) == 0
RetryDue(nb) == Len(nb) = 0

RetryArgs_SameRatio(args) == args

\* the copy of recog_args with minlenratio = max(0.0, minlenratio - 0.1)
RetryArgs(args) == [args EXCEPT !.minlenratio = Max(0, @ - 1)]

(***************************************************************************)
(* E2E.recognize: the call                                                 *)
(***************************************************************************)
LmWeights == {10}

RecogArgs == [beam_size : BeamSizes, nbest : 1..MaxNbest, penalty : 0..MaxPenalty,
              ctc_weight : CtcWeights, maxlenratio : MaxLenRatios,
              minlenratio : MinLenRatios, lm_weight : LmWeights]

\* no expansion was traced
NoScores == [att |-> << >>, ctc |-> << >>, lm |-> << >>]

\* no call of recognize is in progress
NoCall(args) ==
    /\ recog_args = args
    /\ frame_args = args
    /\ depth = 0
    /\ T = 0
    /\ pc = "idle"
    /\ i = 0
    /\ k = 1
    /\ hyps = << >>
    /\ hyps_best_kept = << >>
    /\ ended_hyps = << >>
    /\ maxlen = 0
    /\ minlen = 0
    /\ lpz = << >>
    /\ nbest_hyps = << >>
    /\ step_cands = << >>
    /\ local = NoScores
    /\ end_detected = FALSE
    /\ caller_args = args

\* utterances: frames of the encoder output.  A CTC-only model decodes in one
\* step and a beam of 1 keeps one hypothesis, so longer utterances are
\* explored for them.
Frames(alpha, args) ==
    IF alpha = 10 THEN 1..MaxCtcFrames
    ELSE IF args.beam_size = 1 THEN 1..MaxGreedyFrames ELSE BeamFrames

\* recognize from its first line to the start of the search loop (or to the
\* return of the pure-CTC branch), entered with t encoder frames
Entry(t) ==
    LET a == ForceCtcWeight(mtlalpha, frame_args) IN
    /\ frame_args' = a
    \* the outermost invocation works on the caller's object itself
    /\ recog_args' = IF depth = 0 THEN a ELSE recog_args
    /\ T' = t
    /\ IF PureCtc(mtlalpha, a)
       THEN \E path \in [1..t -> Tokens(odim)] :
               /\ lpz' = path
               /\ IF CtcBeamSearchUnimplemented(a)
                  THEN \* NotImplementedError
                       /\ pc' = "raised"
                       /\ nbest_hyps' = nbest_hyps
                  ELSE /\ pc' = "returned"
                       /\ nbest_hyps' = CtcHypothesis(odim, path)
               /\ UNCHANGED <<i, k, hyps, hyps_best_kept, ended_hyps, maxlen, minlen>>
       ELSE /\ lpz' = << >>
            /\ maxlen' = MaxLenOf(a, t)
            /\ minlen' = MinLenOf(a, t)
            /\ hyps' = <<InitialHyp(odim)>>
            /\ ended_hyps' = << >>
            /\ hyps_best_kept' = << >>
            /\ i' = 0
            /\ k' = 1
            /\ pc' = IF MaxLenOf(a, t) > 0 THEN "expand" ELSE "finish"
            /\ nbest_hyps' = nbest_hyps
    /\ end_detected' = FALSE
    /\ UNCHANGED <<rnnlm, depth, step_cands, local, caller_args>>
    \* self.encode(x) puts the model in evaluation mode
    /\ training' = FALSE
    /\ UNCHANGED fwd_vars

\* the caller's call
RecognizeCall ==
    /\ pc = "idle"
    /\ \E t \in Frames(mtlalpha, recog_args) : Entry(t)

\* the recursive call of the retry, on the same utterance
RetryCall ==
    /\ pc = "retry"
    /\ Entry(T)

\* the requests a search can be made for
SearchKeys ==
    { <<od, al, a.beam_size, a.ctc_weight, a.lm_weight, l>> :
        od \in SearchOdims, al \in {x \in MtlAlphas : x < 10}, a \in RecogArgs,
        l \in BOOLEAN }

\* CandidateSets, tabulated once per request
CandidateTable ==
    { <<key, CandidateSets(key[1], key[2],
                           [beam_size |-> key[3], ctc_weight |-> key[4],
                            lm_weight |-> key[5]], key[6])>> : key \in SearchKeys }

Candidates(od, alpha, args, lm_on) ==
    LET key == <<od, alpha, args.beam_size, args.ctc_weight, args.lm_weight, lm_on>> IN
    IF key \in SearchKeys
    THEN (CHOOSE e \in CandidateTable : e[1] = key)[2]
    ELSE CandidateSets(od, alpha, args, lm_on)

\* the body of `for hyp in hyps` for hypothesis k of step i
ExpandHyp ==
    /\ pc = "expand"
    /\ k <= Len(hyps)
    /\ LET hyp == hyps[k] IN
       IF Len(hyp.yseq) <= i
       THEN \* hyp["yseq"][i]: IndexError
            /\ pc' = "raised"
            /\ UNCHANGED <<hyps_best_kept, k>>
       ELSE /\ \E cands \in Candidates(odim, mtlalpha, frame_args, rnnlm) :
                  hyps_best_kept' = KeepBest(hyps_best_kept, hyp, cands, frame_args.beam_size)
            /\ k' = k + 1
            /\ pc' = pc
    /\ UNCHANGED <<recog_args, rnnlm, frame_args, depth, T, i, hyps, ended_hyps,
                   maxlen, minlen, lpz, nbest_hyps, step_cands, local, end_detected,
                   caller_args>>
    /\ UNCHANGED <<fwd_vars, training>>

\* the same body, with the scorers' outputs and the candidates it generates
\* kept as history
ExpandHypTraced ==
    /\ pc = "expand"
    /\ k <= Len(hyps)
    /\ LET hyp == hyps[k] IN
       IF Len(hyp.yseq) <= i
       THEN \* hyp["yseq"][i]: IndexError
            /\ pc' = "raised"
            /\ UNCHANGED <<hyps_best_kept, k, step_cands, local>>
       ELSE /\ \E att \in [Tokens(odim) -> LocalScores],
                  ctc \in (IF UsesCtc(mtlalpha, frame_args)
                           THEN [Tokens(odim) -> LocalScores]
                           ELSE {[t \in Tokens(odim) |-> 0]}),
                  lm \in (IF rnnlm THEN [Tokens(odim) -> LocalScores]
                          ELSE {[t \in Tokens(odim) |-> 0]}) :
                \E cands \in LocalCandidates(odim, mtlalpha, frame_args, rnnlm, att, ctc, lm) :
                  /\ hyps_best_kept' =
                        KeepBest(hyps_best_kept, hyp, cands, frame_args.beam_size)
                  /\ step_cands' =
                        step_cands \o [j \in 1..Len(cands) |-> NewHyp(hyp, cands[j])]
                  /\ local' = [att |-> att, ctc |-> ctc, lm |-> lm]
            /\ k' = k + 1
            /\ pc' = pc
    /\ UNCHANGED <<recog_args, rnnlm, frame_args, depth, T, i, hyps, ended_hyps,
                   maxlen, minlen, lpz, nbest_hyps, end_detected, caller_args>>
    /\ UNCHANGED <<fwd_vars, training>>

\* end_detect(ended_hyps, i) is defined in espnet.nets.e2e_asr_common: a test
\* over the scores of the ended hypotheses, which has no ended hypothesis to
\* test when the list is empty
end_detect(ended, step) == IF ended = << >> THEN {FALSE} ELSE BOOLEAN

\* the search ignores every later step
EndDetected_AnyRatio(detected, args) == detected

\* `if end_detect(ended_hyps, i) and recog_args.maxlenratio == 0.0: break`
EndDetected(detected, args) == detected /\ args.maxlenratio = 0

\* the rest of one step of the search loop, after every hypothesis was expanded
EndOfStep ==
    /\ pc = "expand"
    /\ k > Len(hyps)
    /\ LET hs == ForceEos(odim, hyps_best_kept, i, maxlen)
           bonus == (i + 1) * frame_args.penalty * 10
       IN
       \E fin \in IF rnnlm
                  THEN [1..Len(hs) -> {frame_args.lm_weight * x : x \in LocalScores}]
                  ELSE {[j \in 1..Len(hs) |-> 0]} :
       LET r == SplitEnded(odim, hs, 1, minlen, bonus, fin,
                           [ended |-> ended_hyps, remained |-> << >>])
       IN
       /\ ended_hyps' = r.ended
       /\ step_cands' = << >>
       /\ local' = NoScores
       /\ \E detected \in end_detect(r.ended, i) :
             /\ end_detected' = detected
             /\ IF EndDetected(detected, frame_args)
                THEN \* break: hyps keeps the pruned list
                     /\ hyps' = hs
                     /\ pc' = "finish"
                     /\ UNCHANGED <<i, k, hyps_best_kept>>
                ELSE /\ hyps' = r.remained
                     /\ IF r.remained = << >> \/ i + 1 >= maxlen
                        THEN /\ pc' = "finish"
                             /\ UNCHANGED <<i, k, hyps_best_kept>>
                        ELSE /\ pc' = "expand"
                             /\ i' = i + 1
                             /\ k' = 1
                             /\ hyps_best_kept' = << >>
    /\ UNCHANGED <<recog_args, rnnlm, frame_args, depth, T, maxlen, minlen, lpz, nbest_hyps,
                   caller_args>>
    /\ UNCHANGED <<fwd_vars, training>>

\* after the loop: the n-best list, and the retry when it is empty
Finish ==
    /\ pc = "finish"
    /\ LET nb == NbestOf(ended_hyps, frame_args) IN
       IF RetryDue(nb)
       THEN /\ frame_args' = RetryArgs(frame_args)
            /\ depth' = depth + 1
            /\ pc' = "retry"
            /\ nbest_hyps' = nbest_hyps
       ELSE /\ nbest_hyps' = nb
            /\ pc' = "returned"
            /\ UNCHANGED <<frame_args, depth>>
    /\ end_detected' = FALSE
    /\ UNCHANGED <<recog_args, rnnlm, T, i, k, hyps, hyps_best_kept, ended_hyps,
                   maxlen, minlen, lpz, step_cands, local, caller_args>>
    /\ UNCHANGED <<fwd_vars, training>>

(***************************************************************************)
(* Specifications                                                          *)
(***************************************************************************)
DefaultArgs == [beam_size |-> 1, nbest |-> 1, penalty |-> 0, ctc_weight |-> 0,
                maxlenratio |-> 0, minlenratio |-> 0, lm_weight |-> 10]

\* component losses of an uneventful pass
QuietLosses == [loss_ctc |-> Num(2), loss_att |-> Num(2), loss_kl |-> Num(1),
                loss_div |-> Num(1), loss_mi |-> Num(1)]

\* a batch that fills the token budget in one pass
LongBatch == <<200, 500, 250>>

\* every combination of component losses
AllLosses ==
    [loss_ctc : {Num(v) : v \in MainLossValues} \cup {NaN},
     loss_att : {Num(v) : v \in MainLossValues} \cup {NaN},
     loss_kl : {Num(v) : v \in AuxLossValues},
     loss_div : {Num(v) : v \in AuxLossValues},
     loss_mi : {Num(v) : v \in AuxLossValues}]

\* training: a constructed model and a sequence of forward passes
Init ==
    /\ odim \in SearchOdims
    /\ Construct
    /\ kl_weight = 1 /\ div_weight = 1 /\ mi_weight = 1
    /\ \E lead \in Leads :
          feed = [lead |-> lead, passes |-> MaxUpdates,
                  shapes |-> BatchSizes \X EncLens \X DecLens, losses |-> {QuietLosses}]
    /\ rnnlm = FALSE
    /\ NoCall(DefaultArgs)

Next == ForwardPass

Spec == Init /\ [][Next]_vars

\* the first passes of training, over every combination of component losses
\* and loss weights
LossInit ==
    /\ odim \in SearchOdims
    /\ Construct
    /\ kl_weight \in LossWeights /\ div_weight \in LossWeights /\ mi_weight \in LossWeights
    /\ feed = [lead |-> 0, passes |-> LossPasses, shapes |-> {LongBatch},
               losses |-> AllLosses]
    /\ rnnlm = FALSE
    /\ NoCall(DefaultArgs)

LossSpec == LossInit /\ [][Next]_vars

\* training passes interleaved with the two plotting calls, which run forward
\* in evaluation mode
EvalInit ==
    /\ odim \in SearchOdims
    /\ Construct
    /\ kl_weight = 1 /\ div_weight = 1 /\ mi_weight = 1
    /\ feed = [lead |-> 0, passes |-> EvalPasses,
               shapes |-> BatchSizes \X EncLens \X DecLens, losses |-> {QuietLosses}]
    /\ rnnlm = FALSE
    /\ NoCall(DefaultArgs)

EvalNext ==
    \/ ForwardPass
    \/ CalculateAllAttentions
    \/ CalculateAllCtcProbs

EvalSpec == EvalInit /\ [][EvalNext]_vars

\* a model that is not being trained
NoTraining ==
    /\ kl_weight = 1 /\ div_weight = 1 /\ mi_weight = 1
    /\ feed = [lead |-> 0, passes |-> 0, shapes |-> {}, losses |-> {}]

\* decoding: one call of recognize on a model whose mixtures were supplied
\* pre-fit.  The larger vocabulary is decoded with a CTC-only model, a
\* language model is given with beam_size 1, and maxlenratio 1.0 is given
\* with unpenalised 1-best requests.
RecInit ==
    /\ odim \in Odims
    /\ Construct
    /\ NoTraining
    /\ ~gmm_init
    /\ odim \notin SearchOdims => mtlalpha = 10
    /\ rnnlm \in BOOLEAN
    /\ \E args \in RecogArgs :
          /\ rnnlm => args.beam_size = 1
          /\ args.maxlenratio = 10 => (args.nbest = 1 /\ args.penalty = 0)
          /\ NoCall(args)

RecNext ==
    \/ RecognizeCall
    \/ RetryCall
    \/ ExpandHyp
    \/ EndOfStep
    \/ Finish

RecSpec == RecInit /\ [][RecNext]_vars

\* recognize is straight-line sequential code: a call that can take its next
\* step (the next hypothesis of the loop, the end of the step, the n-best
\* list, the recursive call) takes it
\* Termination is explored on the 1-best requests without penalty or language
\* model, with every beam, length ratio and kind of model.
TermInit ==
    /\ odim \in SearchOdims
    /\ Construct
    /\ NoTraining
    /\ ~gmm_init
    /\ rnnlm = FALSE
    /\ \E args \in RecogArgs :
          /\ args.nbest = 1 /\ args.penalty = 0 /\ args.ctc_weight = 5
          /\ NoCall(args)

RecFairSpec == TermInit /\ [][RecNext]_vars /\ WF_vars(RecNext)

\* decoding by the search with the history of every step kept: unpenalised
\* 1-best requests that run the search; a language model is given with
\* beam_size 1 and no minimum length
TraceInit ==
    /\ odim \in SearchOdims
    /\ Construct
    /\ NoTraining
    /\ ~gmm_init
    /\ mtlalpha < 10
    /\ rnnlm \in BOOLEAN
    /\ \E args \in RecogArgs :
          /\ rnnlm => (args.beam_size = 1 /\ args.minlenratio = 0)
          /\ args.nbest = 1 /\ args.penalty = 0 /\ args.maxlenratio = 0
          /\ ~PureCtc(mtlalpha, args)
          /\ NoCall(args)

TraceNext ==
    \/ RecognizeCall
    \/ RetryCall
    \/ ExpandHypTraced
    \/ EndOfStep
    \/ Finish

TraceSpec == TraceInit /\ [][TraceNext]_vars

(***************************************************************************)
(* Properties of the collection / fit / re-arm state machine.              *)
(***************************************************************************)

\* C1: while a model that started in COLLECTING collects (no re-arm reset in
\* between), initialization_tokens equals the sum over the collecting passes
\* of batch_size x encoder-output length.
C1_TokensEqualEncoderSum ==
    (gmm_init /\ fwd_outcome = "returned") => initialization_tokens = enc_token_sum

\* C2 (as stated): a model that starts in COLLECTING fits its mixtures exactly
\* once in the whole run: never a second time, and once the budget is reached
\* the one fit has been made.
C2_FitExactlyOnceInRun ==
    gmm_init => /\ fit_count <= 1
                /\ (initialization_tokens >= max_initialization_tokens => fit_count = 1)

\* C2 (amended): a model that starts in COLLECTING fits its mixtures exactly
\* once per collection phase (the initial one, and the one the re-arm starts),
\* hence at most twice in a run, and every fit is made in the pass in which the
\* token counter reaches the budget.
C2_FitOncePerCollection ==
    /\ [](gmm_init =>
            /\ fits_since_rearm <= 1
            /\ fit_count <= rearm_count + 1
            /\ (initialization_tokens >= max_initialization_tokens
                    => fits_since_rearm = 1))
    /\ [][fit_count' # fit_count =>
            /\ fit_count' = fit_count + 1
            /\ initialization_tokens' >= max_initialization_tokens
            /\ (initialization_tokens < max_initialization_tokens
                    \/ rearm_count' # rearm_count)]_vars

C2_Witness == gmm_init /\ fit_count = 2 /\ rearm_count = 1

\* C3 (as stated): only a model whose mixtures were supplied pre-fit (started
\* in TRAINING) is ever re-armed.
C3_RearmOnlyWhenPrefit == rearm_count > 0 => ~gmm_init

\* C3 (amended): only a model that started in COLLECTING (gmm_init set) is
\* ever re-armed; a model that started in TRAINING is never re-armed.
C3_RearmOnlyWhenStartedCollecting ==
    /\ rearm_count > 0 => gmm_init
    /\ ~gmm_init => /\ reinitialized
                    /\ initialization_tokens = InitTokensPrefit
                    /\ initialization_data = EmptyData

C3_Witness == gmm_init /\ rearm_count = 1 /\ num_updates = ReinitUpdates

\* C4: over any sequence of forward passes of one model instance the re-arm
\* block runs at most once.
C4_RearmAtMostOnce == rearm_count <= 1

C4_Witness == rearm_count = 1 /\ num_updates > ReinitUpdates + 1

(***************************************************************************)
(* Properties of the loss, the reporter, the freeze and the fit.           *)
(***************************************************************************)

\* C13 (as stated): a pass whose total loss is NaN or above the threshold makes
\* no call of the reporter and returns; a pass whose total loss is a number
\* not above the threshold calls the reporter exactly once.
C13_SkipsLossAboveThreshold ==
    fwd_outcome # "none" =>
        IF loss.kind = "nan" \/ loss.v > 10 * CTC_LOSS_THRESHOLD
        THEN reported = << >> /\ fwd_outcome = "returned"
        ELSE Len(reported) = 1

\* C13 (amended): a pass whose total loss is NaN or not below the threshold
\* (equal to it included) makes no call of the reporter, a pass whose total
\* loss is a number below the threshold makes exactly one, with that loss; the
\* skipped report raises nothing, and the only passes that do not return are
\* the collecting (frozen) passes of a model without a decoder.
C13_SkipsLossNotBelowThreshold ==
    fwd_outcome # "none" =>
        /\ IF loss.kind = "nan" \/ loss.v >= 10 * CTC_LOSS_THRESHOLD
           THEN reported = << >>
           ELSE Len(reported) = 1 /\ reported[1].loss = loss
        /\ fwd_outcome = "raised" => (mtlalpha = 10 /\ ~requires_grad)

C13_Witness ==
    /\ fwd_outcome = "returned"
    /\ loss = [kind |-> "num", v |-> 10 * CTC_LOSS_THRESHOLD]
    /\ reported = << >>

\* C14: the total loss is ctc + w_kl*kl + w_div*div + w_mi*mi when alpha is 1,
\* attention + the same three terms when alpha is 0, and alpha*ctc +
\* (1-alpha)*attention + the three terms otherwise (NaN when a term is NaN);
\* a report carries the attention loss as absent exactly when alpha is 1 and
\* the CTC loss as absent exactly when alpha is 0.
C14_TotalLossWeightedSum ==
    fwd_outcome # "none" =>
        LET aux == 10 * (kl_weight * losses.loss_kl.v + div_weight * losses.loss_div.v
                         + mi_weight * losses.loss_mi.v)
            ctc == losses.loss_ctc
            att == losses.loss_att
            nan == [kind |-> "nan", v |-> 0]
            absent == [kind |-> "none", v |-> 0]
            expected ==
                IF mtlalpha = 10
                THEN IF ctc.kind = "nan" THEN nan
                     ELSE [kind |-> "num", v |-> 10 * ctc.v + aux]
                ELSE IF mtlalpha = 0
                THEN IF att.kind = "nan" THEN nan
                     ELSE [kind |-> "num", v |-> 10 * att.v + aux]
                ELSE IF ctc.kind = "nan" \/ att.kind = "nan" THEN nan
                     ELSE [kind |-> "num",
                           v |-> mtlalpha * ctc.v + (10 - mtlalpha) * att.v + aux]
        IN  /\ loss = expected
            /\ \A r \in {reported[p] : p \in 1..Len(reported)} :
                  /\ r.loss = expected
                  /\ r.loss_att = (IF mtlalpha = 10 THEN absent ELSE att)
                  /\ r.loss_ctc = (IF mtlalpha = 0 THEN absent ELSE ctc)
                  /\ (r.loss_att = absent) <=> (mtlalpha = 10)
                  /\ (r.loss_ctc = absent) <=> (mtlalpha = 0)

C14_Witness ==
    /\ fwd_outcome = "returned"
    /\ mtlalpha = 5
    /\ kl_weight = 2 /\ div_weight = 0 /\ mi_weight = 2
    /\ losses = [loss_ctc |-> [kind |-> "num", v |-> 2],
                 loss_att |-> [kind |-> "num", v |-> 10000],
                 loss_kl |-> [kind |-> "num", v |-> 1],
                 loss_div |-> [kind |-> "num", v |-> 1],
                 loss_mi |-> [kind |-> "num", v |-> 1]]
    /\ loss = [kind |-> "num", v |-> 50050]
    /\ Len(reported) = 1

\* C15 (as stated): a pass runs with the gradients frozen and the heads in
\* debug mode iff the token counter is below the budget after the re-arm
\* check; the pass that reaches the budget runs frozen, and the pass right
\* after it runs with gradients enabled and debug off.
C15_FrozenIffCollectingNextPassUnfrozen ==
    [][num_updates' # num_updates =>
        LET start == IF rearm_count' # rearm_count THEN 0 ELSE initialization_tokens IN
        /\ (start < max_initialization_tokens) <=> (~requires_grad' /\ debug' = "on")
        /\ (start >= max_initialization_tokens) <=> (requires_grad' /\ debug' = "off")
        /\ (initialization_tokens' >= max_initialization_tokens
              /\ initialization_tokens' # initialization_tokens) => ~requires_grad'
        /\ (initialization_tokens >= max_initialization_tokens /\ ~requires_grad)
              => (requires_grad' /\ debug' = "off")]_vars

\* C15 (amended): a pass runs with the gradients frozen and the heads in debug
\* mode iff the token counter is below the budget after the re-arm check, and
\* otherwise with gradients enabled and debug off; the pass that reaches the
\* budget runs frozen, and the pass right after it runs with gradients enabled
\* and debug off unless the re-arm happens in it, in which case it runs frozen.
C15_FrozenIffCollectingAfterRearmCheck ==
    [][num_updates' # num_updates =>
        LET start == IF rearm_count' # rearm_count THEN 0 ELSE initialization_tokens IN
        /\ (start < max_initialization_tokens) <=> (~requires_grad' /\ debug' = "on")
        /\ (start >= max_initialization_tokens) <=> (requires_grad' /\ debug' = "off")
        /\ (initialization_tokens' >= max_initialization_tokens
              /\ initialization_tokens' # initialization_tokens) => ~requires_grad'
        /\ (initialization_tokens >= max_initialization_tokens /\ ~requires_grad)
              => IF rearm_count' # rearm_count
                 THEN ~requires_grad' /\ debug' = "on"
                 ELSE requires_grad' /\ debug' = "off"]_vars

C15_Witness ==
    /\ fit_count = 1
    /\ rearm_count = 1
    /\ num_updates = ReinitUpdates
    /\ ~requires_grad
    /\ debug = "on"
    /\ fwd_outcome = "returned"

\* C16: after the pass that reaches the budget and fits the mixtures, and
\* through the training passes that follow, every stream of the buffer is
\* empty.
C16_BufferEmptyAfterFit ==
    (fit_count > 0 /\ initialization_tokens >= max_initialization_tokens) =>
        \A s \in DOMAIN initialization_data : initialization_data[s].rows = 0

\* C17: a fit writes the semantic mixtures always, and the head-selection
\* mixtures iff a re-arm has happened before it (in its own pass or an earlier
\* one); the fit that ends an initial collection no re-arm interrupted leaves
\* the head-selection mixtures as they were; nothing but a fit writes either.
C17_HeadMixturesOnlyAfterRearm ==
    [][/\ fit_count' # fit_count =>
            /\ semantic_fits' = semantic_fits + 1
            /\ rearm_count' >= 1 => head_fits' = head_fits + 1
            /\ rearm_count' = 0 => head_fits' = head_fits
       /\ fit_count' = fit_count =>
            (semantic_fits' = semantic_fits /\ head_fits' = head_fits)]_vars

C17_Witness ==
    /\ fit_count = 2
    /\ rearm_count = 1
    /\ semantic_fits = 2
    /\ head_fits = 1

\* C18: every forward pass of a model built without a decoder (mtlalpha 1.0)
\* returns.
C18_CtcOnlyForwardReturns ==
    mtlalpha = 10 => fwd_outcome # "raised"

(***************************************************************************)
(* Properties of recognize.                                                *)
(***************************************************************************)
Range(seq) == {seq[p] : p \in 1..Len(seq)}

NonIncreasing(hs) == \A a, b \in 1..Len(hs) : a < b => hs[a].score >= hs[b].score

\* C5: a hypothesis is in the ended set only if its length not counting the
\* leading start token is strictly greater than minlen.
C5_EndedLongerThanMinlen ==
    \A h \in Range(ended_hyps) : Len(h.yseq) - 1 > minlen

\* C6 (as stated): no second retry is ever made within one call of recognize.
C6_NoSecondRetry == depth <= 1

\* C6 (amended): a search that finishes with zero ended hypotheses is followed
\* by a retry of the entire search with minlenratio lowered by 0.1 and floored
\* at 0 and every other parameter kept, a search that finishes with an ended
\* hypothesis is followed by none, and nothing else starts a retry; the retry
\* is repeated for as long as the retried search finishes with zero ended
\* hypotheses.
C6_RetryAfterEveryEmptySearch ==
    [][/\ pc = "finish" =>
            IF ended_hyps = << >>
            THEN /\ pc' = "retry"
                 /\ depth' = depth + 1
                 /\ frame_args' = [frame_args EXCEPT !.minlenratio =
                                      IF @ >= 1 THEN @ - 1 ELSE 0]
            ELSE /\ pc' = "returned"
                 /\ depth' = depth
       /\ depth' # depth => pc = "finish" /\ ended_hyps = << >>
       /\ pc = "retry" =>
            /\ pc' \in {"expand", "finish"}
            /\ i' = 0
            /\ ended_hyps' = << >>
            /\ minlen' = (frame_args.minlenratio * T) \div 10]_vars

C6_Witness == pc = "returned" /\ depth = 2

\* C7 (as stated): if the retried search also ends with zero hypotheses,
\* recognize returns an empty list and starts no further search.
C7_SecondFailureReturnsEmpty ==
    [][(pc = "finish" /\ depth >= 1 /\ ended_hyps = << >>)
          => (pc' = "returned" /\ nbest_hyps' = << >>)]_vars

\* C7 (amended): if the retried search also ends with zero hypotheses,
\* recognize raises no error and starts a further retry; it never returns an
\* empty list.
C7_SecondFailureRetriesAgain ==
    [][/\ (pc = "finish" /\ depth >= 1 /\ ended_hyps = << >>)
            => (pc' = "retry" /\ depth' = depth + 1)
       /\ pc' = "returned" => nbest_hyps' # << >>]_vars

C7_Witness == pc = "retry" /\ depth = 2

\* C8: the returned list is in non-increasing score order, holds at most nbest
\* hypotheses, and (when a search produced it) every hypothesis in it is a
\* member of the ended set of that search.
C8_ReturnedSortedBoundedEnded ==
    pc = "returned" =>
        /\ NonIncreasing(nbest_hyps)
        /\ Len(nbest_hyps) <= recog_args.nbest
        /\ ~PureCtc(mtlalpha, recog_args) => Range(nbest_hyps) \subseteq Range(ended_hyps)

C8_Witness ==
    /\ pc = "returned"
    /\ Len(ended_hyps) > Len(nbest_hyps)
    /\ Len(nbest_hyps) = 2
    /\ nbest_hyps[1].score > nbest_hyps[2].score
    /\ nbest_hyps # SubSeq(ended_hyps, 1, 2)

\* the positions of a CTC path that survive: not blank, and not a repetition
\* of the position before
KeptPositions(path) ==
    {p \in 1..Len(path) : path[p] # blank /\ (p = 1 \/ path[p - 1] # path[p])}

\* C9: in the pure-CTC path recognize returns exactly one hypothesis, of score
\* 0, whose tokens are the start token followed by the tokens of the argmax
\* path that are not blank and do not repeat their predecessor, in path order
\* (duplicates collapsed first, blanks removed afterwards); [a,a,blank,b]
\* yields [sos,a,b].
C9_PureCtcCollapsesThenRemovesBlanks ==
    (pc = "returned" /\ PureCtc(mtlalpha, recog_args)) =>
        /\ Len(nbest_hyps) = 1
        /\ nbest_hyps[1].score = 0
        /\ LET y == nbest_hyps[1].yseq
               kept == KeptPositions(lpz)
           IN /\ Len(y) = 1 + Cardinality(kept)
              /\ y[1] = odim - 1
              /\ \A p \in kept :
                    y[1 + Cardinality({q \in kept : q <= p})] = lpz[p]
        /\ (lpz = <<1, 1, 0, 2>> /\ odim = 4) => nbest_hyps[1].yseq = <<3, 1, 2>>

C9_Witness ==
    /\ pc = "returned"
    /\ PureCtc(mtlalpha, recog_args)
    /\ odim = 4
    /\ lpz = <<1, 1, 0, 2>>
    /\ nbest_hyps = <<[score |-> 0, yseq |-> <<3, 1, 2>>]>>

\* C10 (as stated): every returned hypothesis, on any path, starts with the
\* start token and ends with the end token.
C10_StartsWithSosEndsWithEos ==
    pc = "returned" =>
        \A h \in Range(nbest_hyps) : h.yseq[1] = odim - 1 /\ h.yseq[Len(h.yseq)] = odim - 1

\* C10 (amended): every returned hypothesis starts with the start token; a
\* hypothesis returned by the general beam search has at least one more token
\* and its last token is the end token, whereas the hypothesis of the pure-CTC
\* path is the start token followed by the non-blank tokens of the collapsed
\* CTC path only, with no end token appended.
C10_StartsWithSosEndsWithEosInSearch ==
    pc = "returned" =>
        \A h \in Range(nbest_hyps) :
            /\ h.yseq[1] = odim - 1
            /\ IF PureCtc(mtlalpha, recog_args)
               THEN \A p \in 2..Len(h.yseq) : h.yseq[p] \in Range(lpz) \ {blank}
               ELSE Len(h.yseq) >= 2 /\ h.yseq[Len(h.yseq)] = odim - 1

C10_Witness ==
    /\ pc = "returned"
    /\ ~PureCtc(mtlalpha, recog_args)
    /\ \E h \in Range(nbest_hyps) : Len(h.yseq) >= 4 /\ h.yseq[2] # odim - 1

\* C11: in the pure-CTC path (the model has a CTC module and the request's
\* ctc_weight is 1.0) a beam_size above 1 always ends in NotImplementedError
\* with no list returned, and a beam_size of at most 1 raises nothing and
\* returns the single hypothesis; the path runs no search and no retry.
C11_PureCtcBeamRaisesElseReturns ==
    (mtlalpha > 0 /\ recog_args.ctc_weight = 10) =>
        /\ pc \in {"idle", "raised", "returned"}
        /\ pc = "raised" => recog_args.beam_size > 1 /\ nbest_hyps = << >>
        /\ pc = "returned" =>
              /\ recog_args.beam_size <= 1
              /\ Len(nbest_hyps) = 1
              /\ nbest_hyps[1].yseq[1] = odim - 1
        /\ depth = 0

C11_Witness ==
    /\ pc = "raised"
    /\ mtlalpha > 0
    /\ recog_args.ctc_weight = 10
    /\ recog_args.beam_size = 2
    /\ lpz # << >>

\* the fused local score of token t under the scorers' outputs sc: the
\* attention score, weighted against the CTC prefix score when CTC scoring is
\* active, plus the weighted language-model score when a model is given
FusedScore(sc, t) ==
    (IF mtlalpha > 0 /\ frame_args.ctc_weight > 0 /\ frame_args.ctc_weight # 10
     THEN (10 - frame_args.ctc_weight) * sc.att[t] + frame_args.ctc_weight * sc.ctc[t]
     ELSE 10 * sc.att[t])
    + (IF rnnlm THEN frame_args.lm_weight * sc.lm[t] ELSE 0)

\* C12 (as stated): with beam_size 1, every expansion leaves exactly one
\* hypothesis, the expanded one extended by a token that maximises the fused
\* local score over the whole vocabulary.
C12_GreedyTakesFusedArgmax ==
    [][(pc = "expand" /\ k' = k + 1 /\ frame_args.beam_size = 1) =>
          /\ Len(hyps_best_kept') = 1
          /\ LET new == hyps_best_kept'[1]
                 tok == new.yseq[Len(new.yseq)]
             IN /\ new.yseq = Append(hyps[k].yseq, tok)
                /\ \A t \in 0..(odim - 1) : FusedScore(local', tok) >= FusedScore(local', t)]_vars

\* C12 (amended): with beam_size 1, every expansion leaves exactly one
\* hypothesis, the expanded one extended by one token and its score advanced
\* by that token's fused local score; the token maximises the fused score over
\* the whole vocabulary when CTC scoring is inactive, and maximises the
\* attention score alone when CTC scoring is active (the pre-pruning keeps one
\* candidate).
C12_GreedyTakesArgmaxAfterPrePruning ==
    [][(pc = "expand" /\ k' = k + 1 /\ frame_args.beam_size = 1) =>
          /\ Len(hyps_best_kept') = 1
          /\ LET new == hyps_best_kept'[1]
                 tok == new.yseq[Len(new.yseq)]
             IN /\ new.yseq = Append(hyps[k].yseq, tok)
                /\ new.score = hyps[k].score + FusedScore(local', tok)
                /\ IF mtlalpha > 0 /\ frame_args.ctc_weight > 0
                   THEN \A t \in 0..(odim - 1) : local'.att[tok] >= local'.att[t]
                   ELSE \A t \in 0..(odim - 1) : FusedScore(local', tok) >= FusedScore(local', t)]_vars

C12_Witness ==
    /\ pc = "expand"
    /\ frame_args.beam_size = 1
    /\ mtlalpha > 0 /\ frame_args.ctc_weight > 0
    /\ ~rnnlm
    /\ k = 2
    /\ i = 1
    /\ Len(hyps_best_kept) = 1
    /\ \E t \in 0..(odim - 1) :
          FusedScore(local, t) >
              FusedScore(local, hyps_best_kept[1].yseq[Len(hyps_best_kept[1].yseq)])

\* C19: at every point of a step the kept hypotheses are at most beam, they
\* are candidates generated in the step, and they are the first beam of all
\* the candidates generated so far in the step when these are ordered by
\* descending score with equal scores in generation order; so at the end of
\* the step they are the beam highest-scoring candidates of all live
\* hypotheses, in non-increasing score order, ties in generation order.
C19_KeepsBestInStableOrder ==
    pc = "expand" =>
        LET kept == hyps_best_kept
            n == Len(step_cands)
            pos(h) == CHOOSE p \in 1..n : step_cands[p] = h
            Before(a, b) == a.score > b.score \/ (a.score = b.score /\ pos(a) < pos(b))
        IN  /\ Len(kept) = (IF n < frame_args.beam_size THEN n ELSE frame_args.beam_size)
            /\ \A p, q \in 1..n : p # q => step_cands[p] # step_cands[q]
            /\ \A p \in 1..Len(kept) : \E q \in 1..n : step_cands[q] = kept[p]
            /\ \A a, b \in 1..Len(kept) : a < b => Before(kept[a], kept[b])
            /\ \A q \in 1..n :
                  (\A p \in 1..Len(kept) : kept[p] # step_cands[q])
                      => \A p \in 1..Len(kept) : Before(kept[p], step_cands[q])

C19_Witness ==
    /\ pc = "expand"
    /\ frame_args.beam_size = 2
    /\ Len(step_cands) = 4
    /\ hyps_best_kept = <<step_cands[3], step_cands[1]>>
    /\ step_cands[2].score = step_cands[4].score
    /\ step_cands[1].score = step_cands[2].score

\* C20: in the last step (i = maxlen - 1) the end symbol is appended to every
\* hypothesis that survived the step's pruning; each of them whose length is
\* above minlen is then added to the ended set, in order, with (i+1)*penalty
\* (and the language model's weighted final score, when a model is given)
\* added to its score, the others are dropped, the search ends, and no
\* hypothesis without a closing end symbol remains.
C20_LastStepEndsEverySurvivor ==
    [][(pc = "expand" /\ k > Len(hyps) /\ i = maxlen - 1) =>
          LET n == Len(hyps_best_kept)
              forced == [j \in 1..n |-> Append(hyps_best_kept[j].yseq, odim - 1)]
              stored == {j \in 1..n : Len(forced[j]) > minlen}
              old == Len(ended_hyps)
          IN  /\ pc' = "finish"
              /\ Len(ended_hyps') = old + Cardinality(stored)
              /\ \A p \in 1..old : ended_hyps'[p] = ended_hyps[p]
              /\ \A j \in stored :
                    LET e == ended_hyps'[old + Cardinality({q \in stored : q <= j})] IN
                    /\ e.yseq = forced[j]
                    /\ e.score - hyps_best_kept[j].score - 10 * (i + 1) * frame_args.penalty
                          \in (IF rnnlm
                               THEN {frame_args.lm_weight * x : x \in LocalScores}
                               ELSE {0})
              /\ \A p \in 1..Len(hyps') :
                    hyps'[p].yseq[Len(hyps'[p].yseq)] = odim - 1]_vars

C20_Witness ==
    /\ pc = "finish"
    /\ maxlen = 2
    /\ i = maxlen - 1
    /\ frame_args.penalty = 1
    /\ hyps = << >>
    /\ Len(hyps_best_kept) = 2
    /\ \A p \in 1..2 : hyps_best_kept[p].yseq[Len(hyps_best_kept[p].yseq)] # odim - 1
    /\ Len(ended_hyps) >= 2

(***************************************************************************)
(* C21: at the end of a step a positive end-detection test stops the       *)
(* search at that step when maxlenratio is 0; with a non-zero maxlenratio  *)
(* (and after a negative test) the search goes on to the next step, and    *)
(* stops only when no live hypothesis is left or maxlen steps are done.    *)
(***************************************************************************)
C21_EndDetectionStopsOnlyWithoutMaxLenRatio ==
    [][(pc = "expand" /\ k > Len(hyps)) =>
          IF end_detected' /\ frame_args.maxlenratio = 0
          THEN pc' = "finish" /\ i' = i
          ELSE IF hyps' = << >> \/ i + 1 >= maxlen
               THEN pc' = "finish" /\ i' = i
               ELSE pc' = "expand" /\ i' = i + 1 /\ k' = 1]_vars

\* a search with maxlenratio 1.0 that went on after a positive test
C21_Witness ==
    /\ end_detected
    /\ frame_args.maxlenratio # 0
    /\ pc = "expand"
    /\ i >= 1
    /\ hyps # << >>
    /\ ended_hyps # << >>

(***************************************************************************)
(* C26: at the start of decoding step i, and while the hypotheses of the   *)
(* step are expanded, every live hypothesis has exactly i + 1 tokens, so   *)
(* yseq[i] is its last token; the read never raises IndexError (the only   *)
(* exception recognize raises is the pure-CTC beam search).                *)
(***************************************************************************)
C26_LiveHypsHaveStepPlusOneTokens ==
    /\ pc = "expand" => \A p \in 1..Len(hyps) : Len(hyps[p].yseq) = i + 1
    /\ pc = "raised" => PureCtc(mtlalpha, frame_args)

\* both hypotheses of a beam of 2 were read at step 1
C26_Witness ==
    /\ pc = "expand"
    /\ i = 1
    /\ Len(hyps) = 2
    /\ k = 3

(***************************************************************************)
(* C24: every hypothesis of the ended set of the beam search starts with   *)
(* the start token and contains the end symbol exactly once after it, as   *)
(* its last token (so none ends in two consecutive end symbols).           *)
(***************************************************************************)
C24_EndedHasEosOnlyAsLastToken ==
    \A p \in 1..Len(ended_hyps) :
       LET y == ended_hyps[p].yseq IN
       /\ Len(y) >= 2
       /\ y[1] = sos(odim)
       /\ Last(y) = eos(odim)
       /\ \A q \in 2..(Len(y) - 1) : y[q] # eos(odim)

(***************************************************************************)
(* C25: recognize never modifies the caller's recog_args: at every point   *)
(* of the call, retries included, every field of the caller's object has   *)
(* the value it had before the call.                                       *)
(***************************************************************************)
C25_CallerArgsUnchanged == recog_args = caller_args

(***************************************************************************)
(* C22: with beam >= 1, nbest >= 1 and at least one encoder frame, every   *)
(* call of recognize terminates (it returns, or raises in the pure-CTC     *)
(* branch); a search never starts a step at or beyond maxlen; every retry  *)
(* is made from a positive minlenratio and lowers it by exactly 0.1; and a *)
(* search with minlenratio 0 ends with at least one ended hypothesis.      *)
(***************************************************************************)
C22_RecognizeTerminates ==
    /\ <>(pc \in {"returned", "raised"})
    /\ [](pc = "expand" => i < maxlen)
    /\ [][pc' = "retry" =>
             /\ frame_args.minlenratio > 0
             /\ frame_args'.minlenratio = frame_args.minlenratio - 1
             /\ depth' = depth + 1]_vars
    /\ []((pc = "finish" /\ frame_args.minlenratio = 0) => ended_hyps # << >>)

\* a call that returned after a chain of four retries, on 3 frames
C22_Witness ==
    /\ pc = "returned"
    /\ frame_args.beam_size >= 1 /\ frame_args.nbest >= 1 /\ T = 3
    /\ depth = 4
    /\ caller_args.minlenratio = 10
    /\ frame_args.minlenratio = 6
    /\ nbest_hyps # << >>

(***************************************************************************)
(* C23: num_updates advances only on forward passes made in training mode: *)
(* a forward pass made in evaluation mode (those of                        *)
(* calculate_all_attentions and calculate_all_ctc_probs) leaves it         *)
(* unchanged.                                                              *)
(***************************************************************************)
C23_EvalPassesKeepNumUpdates ==
    [][eval_passes' # eval_passes => num_updates' = num_updates]_vars

====
